---------------------------- MODULE Spec2Model ----------------------------
(***************************************************************************)
(* Model of libriichi/src/state/agent_helper.rs: the read-only queries of  *)
(* PlayerState (legal discards, unconditional-tenpai discards, rule-based  *)
(* ryukyoku / agari, agari_points, real_time_shanten).                     *)
(*                                                                         *)
(* A state is one frozen PlayerState snapshot plus the last query applied  *)
(* to it (`called`) and what it returned (`ret`).  No query mutates the    *)
(* snapshot.  A [bool; 34] / [bool; 37] array is modelled as the set of    *)
(* indices that hold true; an Option as a sequence of length 0 or 1.       *)
(*                                                                         *)
(* Tile identifiers are those of the program: 1m..9m = 0..8,               *)
(* 1p..9p = 9..17, 1s..9s = 18..26, E S W N P F C = 27..33,                *)
(* 5mr 5pr 5sr = 34..36.  Each specification draws the concealed tiles    *)
(* from the kinds in DOMAIN tehai only: the copies of the other kinds lie   *)
(* in melds or in the open and are never drawn.                            *)
(***************************************************************************)
EXTENDS Integers, FiniteSets, Sequences, TLC

VARIABLES
  \* hand
  tehai, tehai_len_div3, akas_in_hand, is_menzen, melds, ankan_overview,
  \* cached shanten tables
  shanten, keep_shanten_discards, next_shanten_discards,
  has_next_shanten_discard, waits, at_furiten,
  \* legality / river / wall
  forbidden_tiles, discarded_tiles, tiles_seen, tiles_left,
  last_self_tsumo, last_kawa_tile, last_cans,
  \* riichi
  riichi_declared, riichi_accepted, is_w_riichi, at_ippatsu, can_w_riichi,
  at_rinshan, chankan_chance,
  \* dora
  dora_indicators, doras_owned, dora_factor,
  \* round, seats, scores
  player_id, bakaze, jikaze, kyoku, honba, kyotaku, oya, scores, rank,
  is_all_last,
  \* what the external hand evaluator answers for this snapshot
  evaluated,
  \* the query applied and its result
  called, arg, ret

handVars == <<tehai, tehai_len_div3, akas_in_hand, is_menzen, melds, ankan_overview>>
cacheVars == <<shanten, keep_shanten_discards, next_shanten_discards,
               has_next_shanten_discard, waits, at_furiten>>
boardVars == <<forbidden_tiles, discarded_tiles, tiles_seen, tiles_left,
               last_self_tsumo, last_kawa_tile, last_cans>>
riichiVars == <<riichi_declared, riichi_accepted, is_w_riichi, at_ippatsu,
                can_w_riichi, at_rinshan, chankan_chance>>
doraVars == <<dora_indicators, doras_owned, dora_factor>>
roundVars == <<player_id, bakaze, jikaze, kyoku, honba, kyotaku, oya, scores,
               rank, is_all_last>>
stateVars == <<handVars, cacheVars, boardVars, riichiVars, doraVars, roundVars,
               evaluated>>
vars == <<stateVars, called, arg, ret>>

---------------------------------------------------------------------------
(* Tiles (crate::tile, the tuz! / t! macros).                              *)

T5m == 4
T5p == 13
T5s == 22
TE == 27
TW == 29
T5mr == 34
T5pr == 35
T5sr == 36

deaka(t) == IF t = T5mr THEN T5m ELSE IF t = T5pr THEN T5p ELSE IF t = T5sr THEN T5s ELSE t
is_aka(t) == t >= T5mr

None == <<>>
Some(x) == <<x>>
is_some(o) == Len(o) = 1
unwrap(o) == o[1]

Max(S) == CHOOSE x \in S : \A y \in S : y <= x
Min(S) == CHOOSE x \in S : \A y \in S : x <= y
MinOf(a, b) == IF a < b THEN a ELSE b
MaxOf(a, b) == IF a > b THEN a ELSE b

Cnt(h, t) == IF t \in DOMAIN h THEN h[t] ELSE 0
Dec(h, t) == [h EXCEPT ![t] = @ - 1]
Inc(h, t) == [h EXCEPT ![t] = @ + 1]

RECURSIVE SumOver(_, _)
SumOver(h, S) ==
  IF S = {} THEN 0
  ELSE LET x == CHOOSE x \in S : TRUE IN h[x] + SumOver(h, S \ {x})

TileCount(h) == SumOver(h, DOMAIN h)

---------------------------------------------------------------------------
(* The external shanten primitive (crate::algo::shanten::calc_all):        *)
(* shanten(tile_counts, hand_length_div3), -1 meaning complete.  The       *)
(* number of exchanges is 2n - (2 * mentsu + taatsu, at most n blocks)     *)
(* - (1 with a pair as head); a hand of four sets also counts seven pairs  *)
(* and thirteen orphans.                                                   *)

\* the least identifier of a..b the hand holds a tile of, 34 if none
RECURSIVE first_held(_, _, _)
first_held(h, a, b) ==
  IF a = b THEN (IF Cnt(h, a) > 0 THEN a ELSE 34)
  ELSE LET mid == (a + b) \div 2
           l   == first_held(h, a, mid)
       IN  IF l < 34 THEN l ELSE first_held(h, mid + 1, b)

next_held(h, i) == IF i > 33 THEN 34 ELSE first_held(h, i, 33)

\* the best 2 * mentsu + taatsu (at most n blocks, mentsu first) the tiles of
\* identifiers i.. split into, m mentsu and t taatsu being taken already; at
\* one identifier the blocks are taken in a fixed order (st)
RECURSIVE blocks(_, _, _, _, _, _)
blocks(h, i, st, m, t, n) ==
  IF i > 33 THEN LET mm == MinOf(m, n) IN 2 * mm + MinOf(t, n - mm)
  ELSE IF Cnt(h, i) = 0 THEN blocks(h, next_held(h, i + 1), 0, m, t, n)
  ELSE LET c  == h[i]
           r  == IF i < TE THEN i % 9 ELSE 9
           c1 == IF r <= 7 THEN Cnt(h, i + 1) ELSE 0
           c2 == IF r <= 6 THEN Cnt(h, i + 2) ELSE 0
           v0 == blocks(h, next_held(h, i + 1), 0, m, t, n)
           v1 == IF st <= 0 /\ c >= 3
                 THEN blocks([h EXCEPT ![i] = @ - 3], i, 1, m + 1, t, n) ELSE 0
           v2 == IF st <= 1 /\ c >= 2
                 THEN blocks([h EXCEPT ![i] = @ - 2], i, 2, m, t + 1, n) ELSE 0
           v3 == IF st <= 2 /\ c1 > 0 /\ c2 > 0
                 THEN blocks(Dec(Dec(Dec(h, i), i + 1), i + 2), i, 2, m + 1, t, n) ELSE 0
           v4 == IF st <= 3 /\ c1 > 0
                 THEN blocks(Dec(Dec(h, i), i + 1), i, 3, m, t + 1, n) ELSE 0
           v5 == IF st <= 4 /\ c2 > 0
                 THEN blocks(Dec(Dec(h, i), i + 2), i, 4, m, t + 1, n) ELSE 0
       IN  MaxOf(MaxOf(MaxOf(v0, v1), MaxOf(v2, v3)), MaxOf(v4, v5))

all_blocks(h, n) == blocks(h, next_held(h, 0), 0, 0, 0, n)

\* the same with one pair of an identifier of a..b set aside as the head
RECURSIVE blocks_with_head(_, _, _, _)
blocks_with_head(h, a, b, n) ==
  IF a = b
  THEN (IF Cnt(h, a) >= 2 THEN 1 + all_blocks([h EXCEPT ![a] = @ - 2], n) ELSE 0)
  ELSE LET mid == (a + b) \div 2
       IN  MaxOf(blocks_with_head(h, a, mid, n), blocks_with_head(h, mid + 1, b, n))

calc_normal(h, n) ==
  2 * n - MaxOf(all_blocks(h, n), blocks_with_head(h, 0, 33, n))

Yaokyuu == {0, 8, 9, 17, 18, 26, 27, 28, 29, 30, 31, 32, 33}

\* how many identifiers of a..b that are in S the hand holds at least c of
RECURSIVE kinds_with(_, _, _, _, _)
kinds_with(h, S, a, b, c) ==
  IF a = b THEN (IF a \in S /\ Cnt(h, a) >= c THEN 1 ELSE 0)
  ELSE LET mid == (a + b) \div 2
       IN  kinds_with(h, S, a, mid, c) + kinds_with(h, S, mid + 1, b, c)

calc_chitoi(h) ==
  LET pairs == kinds_with(h, 0..33, 0, 33, 2)
      kinds == kinds_with(h, 0..33, 0, 33, 1)
  IN  6 - pairs + MaxOf(0, 7 - kinds)

calc_kokushi(h) ==
  13 - kinds_with(h, Yaokyuu, 0, 33, 1) - MinOf(kinds_with(h, Yaokyuu, 0, 33, 2), 1)

shanten_of(h, n) ==
  IF n < 4 THEN calc_normal(h, n)
  ELSE MinOf(calc_normal(h, n), MinOf(calc_chitoi(h), calc_kokushi(h)))

\* The hands of the hand specification are over the kinds 4m 5m 6m 5p 5s E,
\* with one concealed set; their shanten is tabulated once.
MiniKinds == {3, 4, 5, T5p, T5s, TE}

MiniIndex(t) ==
  CASE t = 3 -> 1 [] t = 4 -> 5 [] t = 5 -> 25 [] t = T5p -> 125 [] t = T5s -> 625
    [] t = TE -> 3125

HandKey(h) ==
  h[3] + 5 * h[4] + 25 * h[5] + 125 * h[T5p] + 625 * h[T5s] + 3125 * h[TE]

NotTabulated == 9

ShantenTable ==
  [k \in 1..15625 |->
     LET h == [t \in MiniKinds |-> ((k - 1) \div MiniIndex(t)) % 5]
     IN  IF h[3] + h[4] + h[5] + h[T5p] + h[T5s] + h[TE] \in 3..6
         THEN shanten_of(h, 1) ELSE NotTabulated] \o <<>>

\* The hands of the ryukyoku specification: fourteen tiles over all the
\* kinds, made of the first j of the terminals 1m 9m 1p 9p 1s 9s, the first k
\* of the honors E S W N P F C, a second E when p = 1, and as many of the
\* simples 2m 5m 8m 2p 5p 8p 2s as it takes; their shanten is tabulated once
\* too.
TerminalsHeld == {2, 4}     \* values of j
HonorsHeld == {5, 6, 7}     \* values of k

terminal_rank(t) ==
  CASE t = 0 -> 1 [] t = 8 -> 2 [] t = 9 -> 3 [] t = 17 -> 4 [] t = 18 -> 5 [] t = 26 -> 6
    [] OTHER -> 7

kyuushu_hand(j, k, p) ==
  [t \in 0..33 |->
     (IF terminal_rank(t) <= j THEN 1 ELSE 0)
     + (IF t >= TE /\ t < TE + k THEN 1 ELSE 0)
     + (IF t = TE THEN p ELSE 0)
     + (IF t < TE /\ t % 3 = 1 /\ (t - 1) \div 3 < 14 - j - k - p THEN 1 ELSE 0)]

KyuushuShantenTable ==
  [i \in 1..112 |->
     LET j == (i - 1) % 7
         k == ((i - 1) \div 7) % 8
         p == (i - 1) \div 56
     IN  IF j \in TerminalsHeld /\ k \in HonorsHeld
         THEN shanten_of(kyuushu_hand(j, k, p), 4) ELSE NotTabulated] \o <<>>

\* the parameters (j, k, p) of h if it is such a hand
kyuushu_index(h) ==
  LET held(t) == IF h[t] > 0 THEN 1 ELSE 0
      j == held(0) + held(8) + held(9) + held(17) + held(18) + held(26)
      k == held(27) + held(28) + held(29) + held(30) + held(31) + held(32) + held(33)
      p == IF h[TE] = 2 THEN 1 ELSE 0
  IN  IF j + k + p >= 7 /\ h = kyuushu_hand(j, k, p) THEN 1 + j + 7 * k + 56 * p ELSE 0

calc_all(h, n) ==
  IF n = 1 /\ DOMAIN h = MiniKinds
  THEN LET v == ShantenTable[1 + HandKey(h)]
       IN  IF v = NotTabulated THEN shanten_of(h, n) ELSE v
  ELSE IF n = 4 /\ DOMAIN h = 0..33 /\ kyuushu_index(h) > 0
  THEN LET v == KyuushuShantenTable[kyuushu_index(h)]
       IN  IF v = NotTabulated THEN shanten_of(h, n) ELSE v
  ELSE shanten_of(h, n)

---------------------------------------------------------------------------
(* The external hand evaluator (crate::algo::agari::AgariCalculator),      *)
(* has_yaku: the melds are summarised by whether they already carry a      *)
(* value-honor triplet and whether they are all simples; the concealed     *)
(* tiles add a triplet of the round wind, or all simples.                  *)

Simples == {t \in 0..26 : t % 9 \notin {0, 8}}

MeldShapes ==
  {[menzen |-> TRUE,  yakuhai |-> FALSE, tanyao |-> TRUE],
   [menzen |-> FALSE, yakuhai |-> TRUE,  tanyao |-> FALSE],
   [menzen |-> FALSE, yakuhai |-> FALSE, tanyao |-> FALSE]}

has_yaku(h, m, wind) ==
  \/ m.yakuhai
  \/ Cnt(h, wind) >= 3
  \/ m.tanyao /\ \A t \in DOMAIN h : h[t] > 0 => t \in Simples

---------------------------------------------------------------------------
(* What the turn engine keeps in PlayerState between decision points.      *)

\* `shanten`: of the 3n+1 hand (before the self-draw when at 3n+2); after a
\* chi or pon, of the 3n+2 hand, clamped to be >= 0.
cached_shanten(h, n, can_discard, tsumo) ==
  IF ~can_discard THEN calc_all(h, n)
  ELSE IF is_some(tsumo) THEN calc_all(Dec(h, deaka(unwrap(tsumo))), n)
  ELSE MaxOf(calc_all(h, n), 0)

\* tiles whose discard lowers / keeps the cached shanten
cached_next_shanten_discards(h, n, s) ==
  {d \in DOMAIN h : h[d] > 0 /\ calc_all(Dec(h, d), n) < s}

cached_keep_shanten_discards(h, n, s) ==
  {d \in DOMAIN h : h[d] > 0 /\ calc_all(Dec(h, d), n) = s}

\* tiles completing the 3n+1 hand
cached_waits(h, n) ==
  {w \in DOMAIN h : h[w] < 4 /\ calc_all(Inc(h, w), n) = -1}

\* ranks are 0 (first) .. 3 (last); ties go to the earlier seat
get_rank_of(sc, pid) ==
  Cardinality({i \in 1..3 : \/ sc[i] > sc[0]
                            \/ sc[i] = sc[0] /\ (pid + i) % 4 < pid})

NoCans == [can_discard |-> FALSE, can_ron_agari |-> FALSE, can_tsumo_agari |-> FALSE,
           can_ryukyoku |-> FALSE, target_actor |-> 0]

---------------------------------------------------------------------------
(* The decision points of the hand specification.                          *)

MaxTilesLeft == 4    \* tiles left in the wall when it is not empty

Hands(K, k) == {h \in [K -> 0..4] : TileCount(h) = k}

\* the identifiers under which a tile of kind k can sit in the hand
IdsInHand(h, akas) ==
  {k \in DOMAIN h : h[k] > 0 /\ (k \in {T5m, T5p, T5s} => h[k] > (IF k \in akas THEN 1 ELSE 0))}
  \cup {T5mr : x \in {T5m} \cap akas} \cup {T5pr : x \in {T5p} \cap akas}
  \cup {T5sr : x \in {T5s} \cap akas}

InitRound ==
  /\ player_id = 0 /\ bakaze = TE /\ jikaze = TE /\ kyoku = 0 /\ honba = 0
  /\ kyotaku = 0 /\ oya = 0 /\ scores = [i \in 0..3 |-> 25000] /\ rank = 0
  /\ is_all_last = FALSE

\* one dora indicator (2m), no dora held
InitDora ==
  /\ dora_indicators = <<1>> /\ doras_owned = 0
  /\ dora_factor = [t \in 0..33 |-> IF t = 2 THEN 1 ELSE 0]

InitIdle == called = "idle" /\ arg = None /\ ret = None

\* The hand, the draw and the shanten cache the engine holds for them.
HandPoint(phase, h, akas, tsumo) ==
  LET n   == 1
      cd  == phase # "3n+1"
      s   == cached_shanten(h, n, cd, tsumo)
      h13 == IF is_some(tsumo) THEN Dec(h, deaka(unwrap(tsumo))) ELSE h
  IN  [phase |-> phase, tehai |-> h, n |-> n, akas |-> akas, tsumo |-> tsumo,
       shanten |-> s,
       waits |-> IF s = 0 /\ phase # "meld" THEN cached_waits(h13, n) ELSE {},
       next |-> IF cd THEN cached_next_shanten_discards(h, n, s) ELSE {},
       keep |-> IF cd THEN cached_keep_shanten_discards(h, n, s) ELSE {}]

\* the decision points whose hands are made of the kinds K
HandPoints(K) ==
  UNION {UNION {UNION {
    {HandPoint(phase, h, akas, tsumo) :
       tsumo \in IF phase = "tsumo" THEN {Some(t) : t \in IdsInHand(h, akas)} ELSE {None}} :
    akas \in SUBSET {k \in {T5m, T5p, T5s} : h[k] > 0}} :
    h \in {x \in Hands(MiniKinds, IF phase = "3n+1" THEN 4 ELSE 5) :
             \A k \in MiniKinds \ K : x[k] = 0}} :
    phase \in {"3n+1", "tsumo", "meld"}}

\* What is known of one kind k of the table: whether the player has discarded
\* it, whether all four copies are visible, whether the last call forbids it.
Boards ==
  {[river |-> IF a THEN {k} ELSE {}, gone |-> IF b THEN {k} ELSE {},
    forb |-> IF c THEN {k} ELSE {}] : k \in MiniKinds, a \in BOOLEAN, b \in BOOLEAN, c \in BOOLEAN}

\* the three concealed kans (7m, 2p, 3p) of a closed hand of four tiles
ConcealedKans == {6, 10, 11}

\* A decision point of a hand of one concealed set and three melds: the wall
\* is empty (haitei, after a draw) or holds MaxTilesLeft tiles; a call has
\* forbidden a kind only right after that call; at haitei the river and the
\* visible tiles are left out, no query reading them there.
DecisionPoint(points, boards) ==
  \E pt \in points :
  \E m \in {x \in MeldShapes : pt.phase = "meld" => ~x.menzen} :
  \E rii \in IF pt.phase = "tsumo" /\ m.menzen THEN {"no", "declared", "accepted"} ELSE {"no"} :
  \E left \in IF pt.phase = "meld" \/ rii = "declared" THEN {MaxTilesLeft} ELSE {0, MaxTilesLeft} :
  \E bd \in {x \in boards : /\ pt.phase = "3n+1" \/ left = 0 => x.river = {} /\ x.gone = {}
                            /\ pt.phase # "meld" => x.forb = {}
                            /\ \A k \in x.river : pt.tehai[k] < 4} :
  \E passed \in IF rii = "accepted" THEN BOOLEAN ELSE {FALSE} :
        /\ rii = "declared" => pt.shanten = 0 \/ (pt.shanten = 1 /\ pt.next # {})
        /\ rii = "accepted" => pt.shanten = 0
        /\ tehai = pt.tehai /\ tehai_len_div3 = pt.n
        /\ akas_in_hand = pt.akas
        /\ is_menzen = m.menzen /\ melds = m
        /\ ankan_overview = (IF m.menzen /\ pt.n = 1 THEN ConcealedKans ELSE {})
        /\ shanten = pt.shanten
        /\ next_shanten_discards = pt.next
        /\ keep_shanten_discards = pt.keep
        /\ has_next_shanten_discard = (pt.next # {})
        /\ waits = pt.waits
        /\ at_furiten = (passed \/ pt.waits \cap bd.river # {})
        /\ forbidden_tiles = bd.forb
        /\ discarded_tiles = bd.river
        /\ tiles_seen = [k \in MiniKinds |->
                           IF k \in bd.gone THEN 4
                           ELSE pt.tehai[k] + (IF k \in bd.river THEN 1 ELSE 0)]
        /\ tiles_left = left
        /\ last_self_tsumo = pt.tsumo
        /\ last_kawa_tile = None
        /\ last_cans = [NoCans EXCEPT !.can_discard = (pt.phase # "3n+1")]
        /\ riichi_declared = (rii # "no")
        /\ riichi_accepted = (rii = "accepted")
        /\ is_w_riichi = FALSE /\ at_ippatsu = FALSE /\ can_w_riichi = FALSE
        /\ at_rinshan = FALSE /\ chankan_chance = None
        /\ evaluated = None
        /\ InitRound /\ InitDora /\ InitIdle

\* the hand specification: hands without 5s, any board
InitHand == DecisionPoint(HandPoints(MiniKinds \ {T5s}), Boards)

\* the legality specification: all the kinds, nothing discarded nor exhausted
InitLegal == DecisionPoint(HandPoints(MiniKinds), {x \in Boards : x.river = {} /\ x.gone = {}})

---------------------------------------------------------------------------
(* agent_helper.rs, the discard queries.                                   *)

\* aka_normalise keeping the black five whatever the count held
aka_normalise_keeping_black(r, five, red, aka) ==
  IF five \in r /\ aka \in akas_in_hand THEN r \cup {red} ELSE r

\* the red-five normalisation closing both discard queries
aka_normalise(r, five, red, aka) ==
  IF five \in r /\ aka \in akas_in_hand
  THEN (r \cup {red}) \ (IF tehai[five] > 1 THEN {} ELSE {five})
  ELSE r

\* the per-kind legality of the loop over tehai
discard_allowed(i) ==
  IF riichi_declared
  THEN IF shanten = 1 THEN i \in next_shanten_discards ELSE i \in keep_shanten_discards
  ELSE i \notin forbidden_tiles

\* discard_candidates_aka without the early return of an accepted riichi
discard_candidates_aka_no_riichi_return ==
  LET r0 == {i \in DOMAIN tehai : tehai[i] # 0 /\ discard_allowed(i)}
      r1 == aka_normalise(r0, T5m, T5mr, T5m)
      r2 == aka_normalise(r1, T5p, T5pr, T5p)
  IN  aka_normalise(r2, T5s, T5sr, T5s)

discard_candidates_aka ==
  IF riichi_accepted THEN {unwrap(last_self_tsumo)}
  ELSE LET r0 == {i \in DOMAIN tehai : tehai[i] # 0 /\ discard_allowed(i)}
           r1 == aka_normalise(r0, T5m, T5mr, T5m)
           r2 == aka_normalise(r1, T5p, T5pr, T5p)
       IN  aka_normalise(r2, T5s, T5sr, T5s)

\* the 34-wide collapse of a 37-wide result
collapse_aka(full) ==
  {i \in full : i < T5mr}
  \cup (IF T5mr \in full THEN {T5m} ELSE {})
  \cup (IF T5sr \in full THEN {T5s} ELSE {})
  \cup (IF T5pr \in full THEN {T5p} ELSE {})

discard_candidates == collapse_aka(discard_candidates_aka)

\* scan_tsumo with the furiten check placed after the seen == 4 || ret[discard]
\* skip
RECURSIVE scan_tsumo_furiten_last(_, _, _, _)
scan_tsumo_furiten_last(tehai_3n1, discard, tsumo, elig) ==
  IF tsumo > 33 THEN elig
  ELSE IF tsumo \notin DOMAIN tehai
       THEN scan_tsumo_furiten_last(tehai_3n1, discard, tsumo + 1, elig)
  ELSE IF tsumo = discard \/ tehai_3n1[tsumo] = 4
       THEN scan_tsumo_furiten_last(tehai_3n1, discard, tsumo + 1, elig)
  ELSE LET tehai_3n2 == Inc(tehai_3n1, tsumo)
       IN  IF calc_all(tehai_3n2, tehai_len_div3) > -1
           THEN scan_tsumo_furiten_last(tehai_3n1, discard, tsumo + 1, elig)
           ELSE IF tiles_seen[tsumo] = 4 \/ elig
                THEN scan_tsumo_furiten_last(tehai_3n1, discard, tsumo + 1, elig)
           ELSE IF tsumo \in discarded_tiles THEN FALSE
           ELSE scan_tsumo_furiten_last(tehai_3n1, discard, tsumo + 1,
                                        has_yaku(tehai_3n2, melds, bakaze))

\* the scan of the hypothetical draws tsumo, tsumo + 1, ... for one discard;
\* `elig` is ret[discard] so far
RECURSIVE scan_tsumo(_, _, _, _)
scan_tsumo(tehai_3n1, discard, tsumo, elig) ==
  IF tsumo > 33 THEN elig
  ELSE IF tsumo \notin DOMAIN tehai THEN scan_tsumo(tehai_3n1, discard, tsumo + 1, elig)
  ELSE IF tsumo = discard \/ tehai_3n1[tsumo] = 4
       THEN scan_tsumo(tehai_3n1, discard, tsumo + 1, elig)
  ELSE LET tehai_3n2 == Inc(tehai_3n1, tsumo)
       IN  IF calc_all(tehai_3n2, tehai_len_div3) > -1
           THEN scan_tsumo(tehai_3n1, discard, tsumo + 1, elig)
           ELSE IF tsumo \in discarded_tiles THEN FALSE
           ELSE IF tiles_seen[tsumo] = 4 \/ elig
                THEN scan_tsumo(tehai_3n1, discard, tsumo + 1, elig)
           ELSE scan_tsumo(tehai_3n1, discard, tsumo + 1,
                           has_yaku(tehai_3n2, melds, bakaze))

\* tenpai_discards without the filter on forbidden_tiles
tenpai_discards_unfiltered ==
  IF shanten = 1 THEN next_shanten_discards ELSE keep_shanten_discards

\* the discards put to the replace-and-test loop
tenpai_discards ==
  {d \in (IF shanten = 1 THEN next_shanten_discards ELSE keep_shanten_discards) :
     d \notin forbidden_tiles}

discard_candidates_with_unconditional_tenpai_aka ==
  IF \/ tiles_left = 0
     \/ shanten > 1
     \/ shanten = 1 /\ ~has_next_shanten_discard
  THEN {}
  ELSE IF is_some(last_self_tsumo) /\ deaka(unwrap(last_self_tsumo)) \in waits THEN {}
  ELSE IF is_some(last_self_tsumo) /\ riichi_accepted
       THEN IF ~at_furiten THEN {unwrap(last_self_tsumo)} ELSE {}
  ELSE IF ~is_some(last_self_tsumo) /\ calc_all(tehai, tehai_len_div3) = -1 THEN {}
  ELSE LET r0 == {d \in tenpai_discards : scan_tsumo(Dec(tehai, d), d, 0, FALSE)}
           r1 == aka_normalise(r0, T5m, T5mr, T5m)
           r2 == aka_normalise(r1, T5p, T5pr, T5p)
       IN  aka_normalise(r2, T5s, T5sr, T5s)

discard_candidates_with_unconditional_tenpai ==
  collapse_aka(discard_candidates_with_unconditional_tenpai_aka)

\* assert!(can_discard) and the expect() on last_self_tsumo: the query
\* returns only where neither panics
discard_query_returns ==
  last_cans.can_discard /\ (riichi_accepted => is_some(last_self_tsumo))

Returns(name, value) ==
  /\ called = "idle"
  /\ called' = name
  /\ ret' = value
  /\ UNCHANGED <<stateVars, arg>>

CallDiscardCandidatesAka ==
  discard_query_returns /\ Returns("discard_candidates_aka", discard_candidates_aka)

CallDiscardCandidates ==
  discard_query_returns /\ Returns("discard_candidates", discard_candidates)

CallTenpaiAka ==
  /\ last_cans.can_discard
  /\ Returns("discard_candidates_with_unconditional_tenpai_aka",
             discard_candidates_with_unconditional_tenpai_aka)

CallTenpai ==
  /\ last_cans.can_discard
  /\ Returns("discard_candidates_with_unconditional_tenpai",
             discard_candidates_with_unconditional_tenpai)

---------------------------------------------------------------------------
(* agent_helper.rs, real_time_shanten.                                     *)

\* real_time_shanten trusting the cached shanten after a chi or pon
real_time_shanten_cached_after_meld ==
  IF ~last_cans.can_discard THEN shanten
  ELSE IF shanten > 0
       THEN IF has_next_shanten_discard THEN shanten - 1 ELSE shanten
  ELSE IF is_some(last_self_tsumo)
       THEN IF deaka(unwrap(last_self_tsumo)) \in waits THEN -1 ELSE 0
  ELSE shanten

real_time_shanten ==
  IF ~last_cans.can_discard THEN shanten
  ELSE IF shanten > 0
       THEN IF has_next_shanten_discard THEN shanten - 1 ELSE shanten
  ELSE IF is_some(last_self_tsumo)
       THEN IF deaka(unwrap(last_self_tsumo)) \in waits THEN -1 ELSE 0
  ELSE calc_all(tehai, tehai_len_div3)

CallRealTimeShanten == Returns("real_time_shanten", real_time_shanten)

---------------------------------------------------------------------------
Next ==
  \/ CallDiscardCandidatesAka
  \/ CallDiscardCandidates
  \/ CallTenpaiAka
  \/ CallTenpai
  \/ CallRealTimeShanten

Spec == InitHand /\ [][Next]_vars

NextLegal ==
  \/ CallDiscardCandidatesAka
  \/ CallDiscardCandidates

SpecLegal == InitLegal /\ [][NextLegal]_vars

---------------------------------------------------------------------------
(* agent_helper.rs, yaokyuu_kind_count and rule_based_ryukyoku.            *)

yaokyuu_kind_count == kinds_with(tehai, Yaokyuu, 0, 33, 1)

\* the score table after a haneman tsumo of the player (lines 239-242)
synthetic_scores ==
  [i \in 0..3 |->
     scores[i] + (IF i = oya THEN -6000 - honba * 300
                  ELSE IF i = 0 THEN 12000 + kyotaku * 1000 + honba * 300
                  ELSE -3000 - honba * 300)]

get_rank(sc) == get_rank_of(sc, player_id)

\* the final-hand rule with the ranks compared the other way round
all_last_ryukyoku_if_still_last ==
  IF oya = 0 \/ rank < 3 THEN TRUE ELSE get_rank(synthetic_scores) = 3

\* the final-hand rule (lines 229-244)
all_last_ryukyoku ==
  IF oya = 0 \/ rank < 3 THEN TRUE ELSE get_rank(synthetic_scores) < 3

\* the rule for the other hands (lines 246-257)
kyuushu_ryukyoku ==
  IF yaokyuu_kind_count >= 10 THEN FALSE
  ELSE IF \A t \in TE..33 : tehai[t] > 0 THEN FALSE
  ELSE TRUE

\* rule_based_ryukyoku_slow with the west round decided after the other rules
rule_based_ryukyoku_slow_west_last ==
  IF calc_all(tehai, tehai_len_div3) <= 2 THEN FALSE
  ELSE IF is_all_last THEN all_last_ryukyoku
  ELSE IF ~kyuushu_ryukyoku THEN FALSE
  ELSE TRUE

rule_based_ryukyoku_slow ==
  IF calc_all(tehai, tehai_len_div3) <= 2 THEN FALSE
  ELSE IF bakaze = TW THEN TRUE
  ELSE IF is_all_last THEN all_last_ryukyoku
  ELSE kyuushu_ryukyoku

\* rule_based_ryukyoku leaving the shanten of the hand out
rule_based_ryukyoku_any_shanten ==
  IF ~last_cans.can_ryukyoku THEN FALSE
  ELSE IF bakaze = TW THEN TRUE
  ELSE IF is_all_last THEN all_last_ryukyoku
  ELSE kyuushu_ryukyoku

rule_based_ryukyoku ==
  IF ~last_cans.can_ryukyoku THEN FALSE ELSE rule_based_ryukyoku_slow

CallRuleBasedRyukyoku == Returns("rule_based_ryukyoku", rule_based_ryukyoku)

CallYaokyuuKindCount == Returns("yaokyuu_kind_count", yaokyuu_kind_count)

---------------------------------------------------------------------------
(* The external points (crate::algo::point::Point) and the answer of the   *)
(* hand evaluator to agari(additional_hans, doras): `evaluated` holds, for *)
(* a ron on last_kawa_tile and for a tsumo, the han of the yaku the hand   *)
(* shape carries by itself, or -1 when the tiles make no winning shape.    *)
(* Hands count 30 fu.                                                      *)

ceil100(x) == ((x + 99) \div 100) * 100

basic_points(han) ==
  IF han >= 13 THEN 8000
  ELSE IF han >= 11 THEN 6000
  ELSE IF han >= 8 THEN 4000
  ELSE IF han >= 6 THEN 3000
  ELSE IF han >= 5 THEN 2000
  ELSE CASE han = 1 -> 240 [] han = 2 -> 480 [] han = 3 -> 960 [] han = 4 -> 1920

point(han, is_oya) ==
  LET b == basic_points(han)
  IN  IF is_oya
      THEN [ron |-> ceil100(6 * b), tsumo_oya |-> 0, tsumo_ko |-> ceil100(2 * b)]
      ELSE [ron |-> ceil100(4 * b), tsumo_oya |-> ceil100(2 * b), tsumo_ko |-> ceil100(b)]

yakuman(is_oya) == point(13, is_oya)

tsumo_total(pt, is_oya) ==
  IF is_oya THEN 3 * pt.tsumo_ko ELSE pt.tsumo_oya + 2 * pt.tsumo_ko

\* the total han, or None without a winning shape or without a yaku
agari(is_ron, additional_hans, doras) ==
  LET own == IF is_ron THEN evaluated.ron ELSE evaluated.tsumo
  IN  IF own < 0 \/ own + additional_hans = 0 THEN None
      ELSE Some(own + additional_hans + doras)

\* Tile::next and Tile::prev, the order of the dora indicators
next_tile(t) ==
  IF t < TE THEN (IF t % 9 = 8 THEN t - 8 ELSE t + 1)
  ELSE IF t <= 30 THEN (IF t = 30 THEN TE ELSE t + 1)
  ELSE IF t = 33 THEN 31 ELSE t + 1

prev_tile(t) ==
  IF t < TE THEN (IF t % 9 = 0 THEN t + 8 ELSE t - 1)
  ELSE IF t <= 30 THEN (IF t = TE THEN 30 ELSE t - 1)
  ELSE IF t = 31 THEN 33 ELSE t - 1

\* PlayerState::rel, the seat of an actor relative to the player
rel(actor) == (actor + 4 - player_id) % 4

---------------------------------------------------------------------------
(* agent_helper.rs, agari_points.                                          *)

Ok(pt) == [ok |-> TRUE, point |-> pt]
Err(msg) == [ok |-> FALSE, error |-> msg]

count_true(flags) == Cardinality({i \in DOMAIN flags : flags[i]})

additional_hans(is_ron) ==
  IF is_ron
  THEN count_true(<<riichi_accepted, is_w_riichi, at_ippatsu, tiles_left = 0,
                    is_some(chankan_chance)>>)
  ELSE count_true(<<riichi_accepted, is_w_riichi, at_ippatsu, is_menzen,
                    tiles_left = 0 /\ ~at_rinshan, at_rinshan>>)

\* the uradora the indicators ura[i..] show in the hand
RECURSIVE ura_doras(_, _, _)
ura_doras(th, ura, i) ==
  IF i > Len(ura) THEN 0
  ELSE LET nx == next_tile(ura[i])
       IN  Cnt(th, nx) + (IF nx \in ankan_overview THEN 4 ELSE 0) + ura_doras(th, ura, i + 1)

\* what follows ensure! (lines 383-461)
agari_points_ensured(is_ron, ura_indicators) ==
  IF ~is_ron /\ can_w_riichi THEN Ok(yakuman(oya = 0))
  ELSE LET winning_tile == IF is_ron THEN last_kawa_tile ELSE last_self_tsumo
       IN  IF ~is_some(winning_tile) THEN Err("cannot find the winning tile")
           ELSE LET tid == deaka(unwrap(winning_tile))
                    th  == IF is_ron THEN Inc(tehai, tid) ELSE tehai
                    d0  == doras_owned
                           + (IF is_ron
                              THEN dora_factor[tid] + (IF is_aka(unwrap(winning_tile)) THEN 1 ELSE 0)
                              ELSE 0)
                    final_doras_owned ==
                      d0 + (IF riichi_accepted THEN ura_doras(th, ura_indicators, 1) ELSE 0)
                    a   == agari(is_ron, additional_hans(is_ron), final_doras_owned)
                IN  IF ~is_some(a) THEN Err("not a hora hand")
                    ELSE Ok(point(unwrap(a), oya = 0))

\* agari_points without the ensure! of its first lines
agari_points_unguarded(is_ron, ura_indicators) ==
  agari_points_ensured(is_ron, ura_indicators)

agari_points(is_ron, ura_indicators) ==
  IF ~((is_ron /\ last_cans.can_ron_agari) \/ last_cans.can_tsumo_agari)
  THEN Err("cannot agari")
  ELSE agari_points_ensured(is_ron, ura_indicators)

---------------------------------------------------------------------------
(* agent_helper.rs, rule_based_agari.                                      *)

can_agari == last_cans.can_ron_agari \/ last_cans.can_tsumo_agari

\* tehai with the concealed kans counted in
tehai_full == [t \in DOMAIN tehai |-> tehai[t] + (IF t \in ankan_overview THEN 4 ELSE 0)]

\* the held kinds, most copies first (equal counts: lower identifier first)
RECURSIVE ordered_by_count(_, _)
ordered_by_count(full, S) ==
  IF S = {} THEN <<>>
  ELSE LET t == CHOOSE x \in S : \A y \in S :
                  full[x] > full[y] \/ (full[x] = full[y] /\ x <= y)
       IN  <<t>> \o ordered_by_count(full, S \ {t})

tehai_ordered_by_count ==
  LET full == tehai_full
  IN  ordered_by_count(full, {t \in DOMAIN full : full[t] > 0})

\* the loops of lines 308-322: order is what is left of tehai_ordered_by_count
RECURSIVE push_ura_indicators(_, _, _)
push_ura_indicators(order, seen, ura_indicators) ==
  IF order = <<>> THEN ura_indicators
  ELSE IF Len(ura_indicators) >= Len(dora_indicators) THEN ura_indicators
  ELSE LET ura_ind == prev_tile(Head(order))
       IN  IF seen[ura_ind] >= 4
           THEN push_ura_indicators(Tail(order), seen, ura_indicators)
           ELSE push_ura_indicators(order, [seen EXCEPT ![ura_ind] = @ + 1],
                                    Append(ura_indicators, ura_ind))

max_win_point(is_ron) ==
  IF riichi_accepted
  THEN agari_points(is_ron, push_ura_indicators(tehai_ordered_by_count, tiles_seen, <<>>)).point
  ELSE agari_points(is_ron, <<>>).point

\* the best post-hora situation (lines 333-354)
exp_scores(is_ron, target_rel) ==
  LET mwp == max_win_point(is_ron)
  IN  IF is_ron
      THEN [i \in 0..3 |->
              scores[i]
              + (IF i = 0 THEN mwp.ron + kyotaku * 1000 + honba * 300 ELSE 0)
              - (IF i = target_rel THEN mwp.ron + honba * 300 ELSE 0)]
      ELSE [i \in 0..3 |->
              IF i = 0 THEN scores[0] + tsumo_total(mwp, FALSE) + kyotaku * 1000 + honba * 300
              ELSE IF i = oya THEN scores[i] - (mwp.tsumo_oya + honba * 100)
              ELSE scores[i] - (mwp.tsumo_ko + honba * 100)]

\* rule_based_agari_slow taking the projected rank alone at the end
rule_based_agari_slow_rank_only(is_ron, target_rel) ==
  IF ~is_all_last \/ oya = 0 \/ rank < 3 THEN TRUE
  ELSE IF bakaze = TW /\ kyoku < 3 THEN TRUE
  ELSE IF bakaze # TW /\ \A i \in 0..3 : scores[i] < 30000 THEN TRUE
  ELSE get_rank(exp_scores(is_ron, target_rel)) < 3

rule_based_agari_slow(is_ron, target_rel) ==
  IF ~is_all_last \/ oya = 0 \/ rank < 3 THEN TRUE
  ELSE IF bakaze = TW /\ kyoku < 3 THEN TRUE
  ELSE IF bakaze # TW /\ \A i \in 0..3 : scores[i] < 30000 THEN TRUE
  ELSE LET scores_after == exp_scores(is_ron, target_rel)
       IN  IF \A i \in 0..3 : scores_after[i] < 30000 THEN TRUE
           ELSE get_rank(scores_after) < 3

rule_based_agari ==
  IF ~can_agari THEN FALSE
  ELSE rule_based_agari_slow(last_cans.can_ron_agari, rel(last_cans.target_actor))

CallRuleBasedAgari == Returns("rule_based_agari", rule_based_agari)

CallAgariPoints(is_ron, ura_indicators) ==
  /\ called = "idle"
  /\ called' = "agari_points"
  /\ arg' = Some([is_ron |-> is_ron, ura_indicators |-> ura_indicators])
  /\ ret' = agari_points(is_ron, ura_indicators)
  /\ UNCHANGED stateVars

---------------------------------------------------------------------------
(* The decision points of the ryukyoku specification: the player's first   *)
(* draw of a hand, nothing called or discarded before it.                  *)

MaxHonba == 1
MaxKyotaku == 1

\* scores the player (seat 0) / the three others may have, relative seats
OwnScores == {10000, 30000}
OtherScores == {25000, 28000, 40000}

ScoreTables ==
  {[i \in 0..3 |-> IF i = 0 THEN a ELSE IF i = 1 THEN b ELSE IF i = 2 THEN c ELSE d] :
     a \in OwnScores, b \in OtherScores, c \in OtherScores, d \in OtherScores}

\* the seat of the player after the dealer's
seats_after_oya(o) == (4 - o) % 4

\* the round, the seats and the scores; the rank is the one of the scores,
\* the kyoku the seat of the dealer
RoundPoint(winds, tables) ==
  \E pid \in 0..3 : \E o \in 0..3 : \E w \in winds : \E al \in BOOLEAN :
  \E hb \in 0..MaxHonba : \E kt \in 0..MaxKyotaku : \E sc \in tables :
    /\ player_id = pid /\ oya = o /\ kyoku = (pid + o) % 4
    /\ bakaze = w /\ jikaze = TE + seats_after_oya(o)
    /\ is_all_last = al /\ honba = hb /\ kyotaku = kt
    /\ scores = sc /\ rank = get_rank_of(sc, pid)

\* the hand, the tile drawn (an E) and the shanten cache held for them
KyuushuPoint(h, t) ==
  LET s == calc_all(Dec(h, t), 4)
  IN  [tehai |-> h, tsumo |-> t, shanten |-> s,
       waits |-> IF s = 0 THEN {w \in 0..33 : Dec(h, t)[w] < 4 /\ calc_all(Inc(Dec(h, t), w), 4) = -1}
                 ELSE {},
       next |-> {d \in 0..33 : h[d] > 0 /\ calc_all(Dec(h, d), 4) < s},
       keep |-> {d \in 0..33 : h[d] > 0 /\ calc_all(Dec(h, d), 4) = s},
       kyuushu |-> kinds_with(h, Yaokyuu, 0, 33, 1) >= 9]

KyuushuPoints ==
  {KyuushuPoint(kyuushu_hand(j, k, p), TE) :
     j \in TerminalsHeld, k \in HonorsHeld, p \in {0, 1}}

\* where the draw cannot be called, no round field is read: the table then
\* stands with one score table only
InitRyukyoku ==
  \E pt \in KyuushuPoints :
  \E can \in IF pt.kyuushu THEN BOOLEAN ELSE {FALSE} :
    /\ RoundPoint({TE, TW},
                  IF can THEN ScoreTables ELSE {[i \in 0..3 |-> 25000]})
    /\ ~can => honba = 0 /\ kyotaku = 0 /\ player_id = 0
    /\ tehai = pt.tehai /\ tehai_len_div3 = 4 /\ akas_in_hand = {}
    /\ is_menzen = TRUE /\ ankan_overview = {}
    /\ melds = [menzen |-> TRUE, yakuhai |-> FALSE, tanyao |-> TRUE]
    /\ shanten = pt.shanten
    /\ next_shanten_discards = pt.next /\ keep_shanten_discards = pt.keep
    /\ has_next_shanten_discard = (pt.next # {})
    /\ waits = pt.waits /\ at_furiten = FALSE
    /\ forbidden_tiles = {} /\ discarded_tiles = {}
    /\ tiles_seen = pt.tehai
    /\ tiles_left = 69 - seats_after_oya(oya)
    /\ last_self_tsumo = Some(pt.tsumo) /\ last_kawa_tile = None
    /\ last_cans = [NoCans EXCEPT !.can_discard = TRUE, !.can_ryukyoku = can,
                                  !.can_tsumo_agari = (pt.tsumo \in pt.waits)]
    /\ riichi_declared = FALSE /\ riichi_accepted = FALSE
    /\ is_w_riichi = FALSE /\ at_ippatsu = FALSE /\ can_w_riichi = can
    /\ at_rinshan = FALSE /\ chankan_chance = None
    /\ evaluated = None
    /\ InitDora /\ InitIdle

NextRyukyoku ==
  \/ CallRuleBasedRyukyoku
  \/ CallYaokyuuKindCount

SpecRyukyoku == InitRyukyoku /\ [][NextRyukyoku]_vars

---------------------------------------------------------------------------
(* The decision points of the agari specifications: a hand waiting on 3p   *)
(* and 6p (123m 456m 45p EE and either 789m, a concealed kan of 9s or a    *)
(* pon of 9s), at the player's own turn with the extra tile x in hand      *)
(* ("discard") or facing the tile x another player let go ("respond").     *)
(* The dora indicator is 5p.                                               *)

T3p == 11
T6p == 14
T9s == 26
TN == 30

WaitingHand(meld) ==
  [t \in 0..33 |->
     IF t \in 0..5 \/ t \in {12, 13} THEN 1
     ELSE IF t \in 6..8 /\ meld = "none" THEN 1
     ELSE IF t = TE THEN 2 ELSE 0]

\* hand, melds, visible tiles, dora and shanten cache of such a point;
\* blocked: the four 8s are visible already
WinHand(meld, phase, x, blocked) ==
  LET h == IF phase = "discard" THEN Inc(WaitingHand(meld), x) ELSE WaitingHand(meld)
  IN  /\ tehai = h
      /\ tehai_len_div3 = (IF meld = "none" THEN 4 ELSE 3)
      /\ akas_in_hand = {}
      /\ is_menzen = (meld # "pon")
      /\ melds = [menzen |-> meld # "pon", yakuhai |-> FALSE, tanyao |-> FALSE]
      /\ ankan_overview = (IF meld = "ankan" THEN {T9s} ELSE {})
      /\ tiles_seen = [t \in 0..33 |->
                         IF t = T9s THEN (IF meld = "ankan" THEN 4 ELSE IF meld = "pon" THEN 3 ELSE 0)
                         ELSE IF t = T9s - 1 THEN (IF blocked THEN 4 ELSE 0)
                         ELSE IF t = T5p THEN h[t] + 1
                         ELSE IF t = x /\ phase = "respond" THEN h[t] + 1
                         ELSE h[t]]
      /\ dora_indicators = <<T5p>>
      /\ dora_factor = [t \in 0..33 |-> IF t = T6p THEN 1 ELSE 0]
      /\ doras_owned = h[T6p]
      /\ shanten = 0 /\ waits = {T3p, T6p}
      /\ keep_shanten_discards = (IF phase = "discard" /\ x = TN THEN {TN} ELSE {})
      /\ next_shanten_discards = {} /\ has_next_shanten_discard = FALSE
      /\ forbidden_tiles = {} /\ discarded_tiles = {}

\* the han of the yaku the completed hand may carry by itself
ShapeHans == {1, 3}

\* scores around the 30000 of the rule
OwnScoresAgari == {10000, 28000}
OtherScoresAgari == {12000, 29000, 31000}

ScoreTablesAgari ==
  {[i \in 0..3 |-> IF i = 0 THEN a ELSE IF i = 1 THEN b ELSE IF i = 2 THEN c ELSE d] :
     a \in OwnScoresAgari, b \in OtherScoresAgari, c \in OtherScoresAgari,
     d \in OtherScoresAgari}

\* Before the final hand, as dealer or above last place, the rule reads no
\* other field: such points stand with one win only.
InitAgari ==
  /\ RoundPoint({TE, TW}, ScoreTablesAgari)
  /\ \E is_ron \in BOOLEAN :
     \E win \in IF is_ron /\ scores[0] = 10000 /\ scores[1] = 12000 THEN BOOLEAN ELSE {TRUE} :
     LET live == win /\ is_all_last /\ oya # 0 /\ rank = 3
     IN  \E target_rel \in IF live /\ is_ron THEN 1..3 ELSE {1} :
         \E han \in IF live THEN ShapeHans ELSE {1} :
         \E riichi \in IF live THEN BOOLEAN ELSE {FALSE} :
         \E blocked \in IF riichi THEN BOOLEAN ELSE {FALSE} :
           /\ ~live => honba = 0 /\ kyotaku = 0
           /\ WinHand("ankan", IF is_ron THEN "respond" ELSE "discard",
                      IF win THEN T6p ELSE TN, blocked)
           /\ tiles_left = 30
           /\ last_self_tsumo = (IF is_ron THEN Some(0) ELSE Some(T6p))
           /\ last_kawa_tile = (IF is_ron THEN Some(IF win THEN T6p ELSE TN) ELSE Some(TE))
           /\ last_cans = [NoCans EXCEPT !.can_discard = ~is_ron,
                                         !.can_ron_agari = is_ron /\ win,
                                         !.can_tsumo_agari = ~is_ron,
                                         !.target_actor = IF is_ron
                                                          THEN (player_id + target_rel) % 4
                                                          ELSE player_id]
           /\ at_furiten = FALSE
           /\ riichi_declared = riichi /\ riichi_accepted = riichi
           /\ is_w_riichi = FALSE /\ at_ippatsu = FALSE /\ can_w_riichi = FALSE
           /\ at_rinshan = FALSE /\ chankan_chance = None
           /\ evaluated = [ron |-> IF is_ron /\ win THEN han ELSE -1,
                           tsumo |-> IF is_ron THEN -1 ELSE han]
           /\ InitIdle

NextAgari == CallRuleBasedAgari

SpecAgari == InitAgari /\ [][NextAgari]_vars

\* the han of the yaku of a completed hand in the points specification
YakuHans == {0, 2}

\* the uradora indicators a caller may pass
UraInputs == {<<>>, <<T9s - 1>>, <<TN, T5p>>}

\* All the combinations of flags the turn engine can leave: a win flag is
\* up only if the evaluator grants the win (or, for a tsumo, at the very
\* first draw), a ron only outside furiten, a tsumo only on a drawn tile.
InitPoints ==
  \E meld \in {"none", "ankan", "pon"} : \E phase \in {"discard", "respond"} :
  \E x \in {T6p, TN} : \E han \in YakuHans :
  \E drawn \in BOOLEAN : \E kawa \in BOOLEAN :
  \E riichi \in BOOLEAN : \E w \in BOOLEAN : \E first \in BOOLEAN :
  \E rinshan \in BOOLEAN : \E chankan \in BOOLEAN : \E furiten \in BOOLEAN :
  \E left \in {0, 30} : \E o \in {0, 1} : \E can \in BOOLEAN :
    /\ riichi => meld # "pon" /\ ~first
    /\ w => riichi
    /\ first => meld = "none" /\ left = 30
    /\ rinshan => phase = "discard" /\ meld = "ankan" /\ drawn
    /\ chankan => phase = "respond"
    /\ furiten => phase = "respond"
    /\ phase = "respond" => kawa
    /\ (phase = "discard" /\ ~drawn) => meld = "pon"
    /\ ~kawa => first
    /\ WinHand(meld, phase, x, FALSE)
    /\ tiles_left = left
    /\ last_self_tsumo = (IF ~drawn THEN None
                          ELSE IF phase = "discard" THEN Some(x) ELSE Some(0))
    /\ last_kawa_tile = (IF ~kawa THEN None
                         ELSE IF phase = "respond" THEN Some(x) ELSE Some(TE))
    /\ at_furiten = furiten
    /\ riichi_declared = riichi /\ riichi_accepted = riichi
    /\ is_w_riichi = w /\ at_ippatsu = FALSE /\ can_w_riichi = first
    /\ at_rinshan = rinshan
    /\ chankan_chance = (IF chankan THEN Some(TRUE) ELSE None)
    /\ evaluated = [ron |-> IF phase = "respond" /\ x = T6p THEN han ELSE -1,
                    tsumo |-> IF phase = "discard" /\ x = T6p THEN han ELSE -1]
    /\ player_id = 0 /\ oya = o /\ kyoku = o /\ bakaze = TE
    /\ jikaze = TE + seats_after_oya(o) /\ is_all_last = FALSE
    /\ honba = 0 /\ kyotaku = 0 /\ scores = [i \in 0..3 |-> 25000] /\ rank = 0
    /\ last_cans = [NoCans EXCEPT !.can_discard = (phase = "discard"),
                                  !.can_ron_agari = can /\ phase = "respond",
                                  !.can_tsumo_agari = can /\ phase = "discard",
                                  !.target_actor = IF phase = "respond" THEN 1 ELSE 0]
    /\ last_cans.can_tsumo_agari =>
         drawn /\ (can_w_riichi \/ is_some(agari(FALSE, additional_hans(FALSE), 0)))
    /\ last_cans.can_ron_agari =>
         ~at_furiten /\ is_some(agari(TRUE, additional_hans(TRUE), 0))
    /\ InitIdle

NextPoints ==
  \E is_ron \in BOOLEAN : \E ura_indicators \in UraInputs :
    CallAgariPoints(is_ron, ura_indicators)

SpecPoints == InitPoints /\ [][NextPoints]_vars

---------------------------------------------------------------------------
(* agent_helper.rs, single_player_tables.  The EV search (SPCalculator) is *)
(* external: a result that went through it carries the arguments it was    *)
(* given in `search`; searched tells whether the search answered a table.  *)

saturating_sub(a, b) == IF a > b THEN a - b ELSE 0

\* the dora of the indicators held in tehai (lines 532-536)
RECURSIVE num_doras_in_tehai(_)
num_doras_in_tehai(i) ==
  IF i > Len(dora_indicators) THEN 0
  ELSE Cnt(tehai, next_tile(dora_indicators[i])) + num_doras_in_tehai(i + 1)

num_doras_in_fuuro ==
  IF is_menzen /\ ankan_overview = {} THEN 0
  ELSE doras_owned - num_doras_in_tehai(1) - Cardinality(akas_in_hand)

\* lines 529-592: the arguments and the call of the search
sp_calc(searched, cur_shanten, tsumos_left, calc_haitei) ==
  LET can_discard == last_cans.can_discard
      is_discard_after_riichi == can_discard /\ riichi_accepted
      last_tsumo == unwrap(last_self_tsumo)
      args == [tehai |-> IF is_discard_after_riichi THEN Dec(tehai, deaka(last_tsumo))
                         ELSE tehai,
               akas_in_hand |-> IF is_discard_after_riichi /\ is_aka(last_tsumo)
                                THEN akas_in_hand \ {deaka(last_tsumo)}
                                ELSE akas_in_hand,
               can_discard |-> can_discard /\ ~is_discard_after_riichi,
               tsumos_left |-> tsumos_left,
               cur_shanten |-> cur_shanten,
               num_doras_in_fuuro |-> num_doras_in_fuuro,
               prefer_riichi |-> scores[0] >= 1000,
               calc_double_riichi |-> can_discard /\ can_w_riichi,
               calc_haitei |-> calc_haitei]
  IN  IF ~searched THEN [ok |-> FALSE, error |-> "search", search |-> args]
      ELSE [ok |-> TRUE, search |-> args,
            first_tile |-> IF is_discard_after_riichi THEN last_self_tsumo ELSE None]

\* the wall left for the count of the draws (lines 515-526)
tiles_left_for_tsumos ==
  IF last_cans.can_discard THEN tiles_left
  ELSE saturating_sub(tiles_left, 4 - rel(last_cans.target_actor))

\* single_player_tables without the ensure! of line 527
single_player_tables_any_tsumos_left(searched) ==
  IF tiles_left < 4 THEN Err("need at least one more tsumo")
  ELSE LET cur_shanten == real_time_shanten
       IN  IF cur_shanten < 0 THEN Err("can't calculate an agari hand")
           ELSE sp_calc(searched, cur_shanten, tiles_left_for_tsumos \div 4,
                        tiles_left_for_tsumos % 4 = 0)

single_player_tables(searched) ==
  IF tiles_left < 4 THEN Err("need at least one more tsumo")
  ELSE LET cur_shanten == real_time_shanten
           tsumos_left == tiles_left_for_tsumos \div 4
           calc_haitei == tiles_left_for_tsumos % 4 = 0
       IN  IF cur_shanten < 0 THEN Err("can't calculate an agari hand")
           ELSE IF tsumos_left < 1 THEN Err("need at least one more tsumo")
           ELSE sp_calc(searched, cur_shanten, tsumos_left, calc_haitei)

CallSinglePlayerTables(searched) ==
  /\ called = "idle"
  /\ called' = "single_player_tables"
  /\ ret' = single_player_tables(searched)
  /\ UNCHANGED <<stateVars, arg>>

---------------------------------------------------------------------------
(* The decision points of the tables specification: hands of 4m 5m 6m E    *)
(* with three melds, the wall holding 0..MaxWall tiles, at the player's    *)
(* own turn or facing the discard of the player target seats away.  The   *)
(* dora indicator is 4m.                                                   *)

MaxWall == 8

TablesKinds == {3, T5m, 5, TE}

InitTables ==
  \E pt \in HandPoints(TablesKinds) :
  \E m \in {x \in MeldShapes : pt.phase = "meld" => ~x.menzen} :
  \E accepted \in IF pt.phase = "tsumo" /\ m.menzen /\ pt.shanten = 0 THEN BOOLEAN ELSE {FALSE} :
  \E left \in 0..MaxWall :
  \E target \in IF pt.phase = "3n+1" THEN 1..3 ELSE {0} :
  \E pid \in {0, 3} :
  \E fuuro_doras \in {0, 1} :
  \E own \in {900, 25000} :
    LET kawa == CHOOSE k \in MiniKinds : pt.tehai[k] < 4
    IN  /\ tehai = pt.tehai /\ tehai_len_div3 = pt.n
        /\ akas_in_hand = pt.akas
        /\ is_menzen = m.menzen /\ melds = m
        /\ ankan_overview = (IF m.menzen THEN ConcealedKans ELSE {})
        /\ shanten = pt.shanten
        /\ next_shanten_discards = pt.next
        /\ keep_shanten_discards = pt.keep
        /\ has_next_shanten_discard = (pt.next # {})
        /\ waits = pt.waits
        /\ at_furiten = FALSE
        /\ forbidden_tiles = {} /\ discarded_tiles = {}
        /\ tiles_seen = [k \in MiniKinds |->
                           pt.tehai[k] + (IF k = 3 THEN 1 ELSE 0)
                           + (IF pt.phase = "3n+1" /\ k = kawa THEN 1 ELSE 0)]
        /\ tiles_left = left
        /\ last_self_tsumo = pt.tsumo
        /\ last_kawa_tile = (IF pt.phase = "3n+1" THEN Some(kawa) ELSE None)
        /\ last_cans = [NoCans EXCEPT !.can_discard = (pt.phase # "3n+1"),
                                      !.target_actor = (pid + target) % 4]
        /\ riichi_declared = accepted /\ riichi_accepted = accepted
        /\ is_w_riichi = FALSE /\ at_ippatsu = FALSE /\ can_w_riichi = FALSE
        /\ at_rinshan = FALSE /\ chankan_chance = None
        /\ evaluated = None
        /\ dora_indicators = <<3>>
        /\ dora_factor = [t \in 0..33 |-> IF t = T5m THEN 1 ELSE 0]
        /\ doras_owned = pt.tehai[T5m] + Cardinality(pt.akas) + fuuro_doras
        /\ player_id = pid /\ bakaze = TE /\ jikaze = TE /\ kyoku = pid /\ oya = 0
        /\ honba = 0 /\ kyotaku = 0 /\ is_all_last = FALSE
        /\ scores = [i \in 0..3 |-> IF i = 0 THEN own ELSE 25000]
        /\ rank = get_rank_of(scores, pid)
        /\ InitIdle

NextTables == \E searched \in BOOLEAN : CallSinglePlayerTables(searched)

SpecTables == InitTables /\ [][NextTables]_vars

---------------------------------------------------------------------------
(* The decision points of the uradora specification: a declarable win      *)
(* with an accepted riichi at the final hand, the player last and not the  *)
(* dealer, another player above 30000.  The hand is 123m 456m EE with      *)
(* 789m or a concealed kan of 9s, and 45p (waiting on 3p 6p) or 55p        *)
(* (waiting on 5p E).  The dora indicators are 3s, 4s.                     *)

DoraIndicatorCounts == {1, 2}

\* the uradora indicator kinds of which copies may lie in the open: 8s, N, 4p
WatchedKinds == {T9s - 1, TN, 12}

UraHand(shape, meld) ==
  [t \in 0..33 |->
     IF t \in 0..5 THEN 1
     ELSE IF t \in 6..8 /\ meld = "none" THEN 1
     ELSE IF t = 12 /\ shape = "ryanmen" THEN 1
     ELSE IF t = T5p THEN (IF shape = "ryanmen" THEN 1 ELSE 2)
     ELSE IF t = TE THEN 2 ELSE 0]

InitUra ==
  \E shape \in {"ryanmen", "shanpon"} : \E meld \in {"none", "ankan"} :
  \E is_ron \in BOOLEAN :
  \E x \in IF shape = "ryanmen" THEN {T3p, T6p} ELSE {T5p, TE} :
  \E len \in DoraIndicatorCounts : \E han \in ShapeHans :
  \E visible \in [WatchedKinds -> {0, 3, 4}] :
    LET h == IF is_ron THEN UraHand(shape, meld) ELSE Inc(UraHand(shape, meld), x)
    IN  /\ tehai = h
        /\ tehai_len_div3 = (IF meld = "none" THEN 4 ELSE 3)
        /\ akas_in_hand = {}
        /\ is_menzen = TRUE
        /\ melds = [menzen |-> TRUE, yakuhai |-> FALSE, tanyao |-> FALSE]
        /\ ankan_overview = (IF meld = "ankan" THEN {T9s} ELSE {})
        /\ dora_indicators = [i \in 1..len |-> 19 + i]
        /\ dora_factor = [t \in 0..33 |-> IF t \in 21..(20 + len) THEN 1 ELSE 0]
        /\ doras_owned = 0
        /\ tiles_seen = [t \in 0..33 |->
                           LET own == h[t] + (IF t = T9s /\ meld = "ankan" THEN 4 ELSE 0)
                                      + (IF t = x /\ is_ron THEN 1 ELSE 0)
                                      + (IF t \in 20..(19 + len) THEN 1 ELSE 0)
                           IN  IF t \in WatchedKinds THEN MaxOf(own, visible[t]) ELSE own]
        /\ shanten = 0
        /\ waits = (IF shape = "ryanmen" THEN {T3p, T6p} ELSE {T5p, TE})
        /\ keep_shanten_discards = {} /\ next_shanten_discards = {}
        /\ has_next_shanten_discard = FALSE
        /\ forbidden_tiles = {} /\ discarded_tiles = {} /\ at_furiten = FALSE
        /\ tiles_left = 30
        /\ last_self_tsumo = (IF is_ron THEN Some(0) ELSE Some(x))
        /\ last_kawa_tile = (IF is_ron THEN Some(x) ELSE Some(0))
        /\ last_cans = [NoCans EXCEPT !.can_discard = ~is_ron,
                                      !.can_ron_agari = is_ron,
                                      !.can_tsumo_agari = ~is_ron,
                                      !.target_actor = IF is_ron THEN 2 ELSE 0]
        /\ riichi_declared = TRUE /\ riichi_accepted = TRUE
        /\ is_w_riichi = FALSE /\ at_ippatsu = FALSE /\ can_w_riichi = FALSE
        /\ at_rinshan = FALSE /\ chankan_chance = None
        /\ evaluated = [ron |-> IF is_ron THEN han ELSE -1,
                        tsumo |-> IF is_ron THEN -1 ELSE han]
        /\ player_id = 0 /\ oya = 1 /\ kyoku = 1 /\ bakaze = TE
        /\ jikaze = TE + seats_after_oya(1) /\ is_all_last = TRUE
        /\ honba = 0 /\ kyotaku = 0
        /\ scores = [i \in 0..3 |-> IF i = 0 THEN 10000 ELSE IF i = 1 THEN 12000 ELSE 31000]
        /\ rank = get_rank_of(scores, 0)
        /\ InitIdle

NextUra == CallRuleBasedAgari

SpecUra == InitUra /\ [][NextUra]_vars

---------------------------------------------------------------------------
(* Properties of the discard queries.                                      *)

red_of(k) == IF k = T5m THEN T5mr ELSE IF k = T5p THEN T5pr ELSE IF k = T5s THEN T5sr ELSE k

\* the replace-and-test loop of the tenpai query is reached
reaches_replace_and_test ==
  /\ last_cans.can_discard
  /\ tiles_left # 0
  /\ shanten <= 1
  /\ shanten = 1 => has_next_shanten_discard
  /\ is_some(last_self_tsumo) =>
       deaka(unwrap(last_self_tsumo)) \notin waits /\ ~riichi_accepted
  /\ ~is_some(last_self_tsumo) => calc_all(tehai, tehai_len_div3) # -1

\* w completes the hand once d is discarded
completes(d, w) ==
  /\ Dec(tehai, d)[w] < 4
  /\ calc_all(Inc(Dec(tehai, d), w), tehai_len_div3) = -1

\* C1: at a discard point where both queries return, every tile marked by
\* discard_candidates_with_unconditional_tenpai() is marked by
\* discard_candidates(), and every identifier marked by the 37-wide tenpai
\* query is marked by discard_candidates_aka(), whatever the riichi status.
C1_TenpaiImpliesLegal ==
  /\ called = "discard_candidates_with_unconditional_tenpai" /\ discard_query_returns
       => ret \subseteq discard_candidates
  /\ called = "discard_candidates_with_unconditional_tenpai_aka" /\ discard_query_returns
       => ret \subseteq discard_candidates_aka

\* C1 witness: after a call that forbids a kind the hand still holds, the
\* 37-wide tenpai query marks a red five among its tiles and fewer tiles than
\* are legal.
C1_Witness ==
  /\ called = "discard_candidates_with_unconditional_tenpai_aka"
  /\ discard_query_returns
  /\ \E k \in forbidden_tiles : tehai[k] > 0
  /\ \E t \in ret : is_aka(t)
  /\ ret # discard_candidates_aka

\* C2: no discard d of the hand is marked by the 37-wide tenpai query, under
\* its kind or its red identifier, when a kind w completing the hand after
\* the discard of d lies in discarded_tiles; the position of w among the
\* completing draws does not matter.
C2_FuritenMonotone ==
  called = "discard_candidates_with_unconditional_tenpai_aka" =>
    \A d \in DOMAIN tehai :
      (tehai[d] > 0 /\ \E w \in discarded_tiles : completes(d, w))
        => d \notin ret /\ red_of(d) \notin ret

\* C2 witness: the loop is reached with a tenpai discard d whose completing
\* draws are w1 < w2, w1 live, not discarded and bearing a yaku, w2 discarded.
C2_Witness ==
  /\ called = "discard_candidates_with_unconditional_tenpai_aka"
  /\ reaches_replace_and_test
  /\ \E d \in tenpai_discards : \E w1 \in DOMAIN tehai : \E w2 \in discarded_tiles :
       /\ w1 < w2 /\ w1 # d /\ w2 # d
       /\ completes(d, w1) /\ completes(d, w2)
       /\ w1 \notin discarded_tiles /\ tiles_seen[w1] < 4
       /\ has_yaku(Inc(Dec(tehai, d), w1), melds, bakaze)
       /\ d \notin ret /\ red_of(d) \notin ret

\* C3: with an accepted riichi, discard_candidates() marks exactly the basic
\* kind of last_self_tsumo and discard_candidates_aka() exactly its
\* identifier.
C3_RiichiAcceptedSingleton ==
  riichi_accepted =>
    /\ called = "discard_candidates" => ret = {deaka(unwrap(last_self_tsumo))}
    /\ called = "discard_candidates_aka" => ret = {unwrap(last_self_tsumo)}

\* C3 witness: an accepted riichi, a red five drawn, and other kinds in hand
\* that keep the shanten when discarded.
C3_Witness ==
  /\ riichi_accepted
  /\ called = "discard_candidates_aka"
  /\ is_aka(unwrap(last_self_tsumo))
  /\ ret = {unwrap(last_self_tsumo)}
  /\ \E k \in keep_shanten_discards : k # deaka(unwrap(last_self_tsumo))

\* C5: at a 3n+1 point, and at a 3n+2 point after a chi or pon (no self-draw),
\* real_time_shanten() is calc_all(tehai, tehai_len_div3).
C5_RealTimeShantenIsCalcAll ==
  called = "real_time_shanten" /\ (~last_cans.can_discard \/ ~is_some(last_self_tsumo))
    => ret = calc_all(tehai, tehai_len_div3)

\* C5 witness: after a chi or pon the cached shanten is 0 by clamping and the
\* hand is complete.
C5_Witness ==
  /\ called = "real_time_shanten"
  /\ last_cans.can_discard /\ ~is_some(last_self_tsumo)
  /\ shanten = 0 /\ ret = -1

\* C9: when discard_candidates_aka() marks the black 5m, 5p or 5s, the hand
\* holds a copy of that five that is not the red one.
C9_BlackFiveHeld ==
  called = "discard_candidates_aka" =>
    \A five \in {T5m, T5p, T5s} :
      five \in ret => tehai[five] - (IF five \in akas_in_hand THEN 1 ELSE 0) >= 1

\* C9 witness: the only 5s held is the red one, 5s is not forbidden, and the
\* query marks 5sr and not 5s.
C9_Witness ==
  /\ called = "discard_candidates_aka"
  /\ ~riichi_declared
  /\ tehai[T5s] = 1 /\ T5s \in akas_in_hand /\ T5s \notin forbidden_tiles
  /\ T5sr \in ret /\ T5s \notin ret

---------------------------------------------------------------------------
(* Properties of rule_based_ryukyoku.                                      *)

\* the final-hand rule decides: the draw can be called, the hand is further
\* than 2-shanten, not in the west round, at the final hand, the player last
\* and not the dealer
final_hand_rule_decides ==
  /\ last_cans.can_ryukyoku
  /\ bakaze # TW
  /\ is_all_last /\ rank = 3 /\ oya # 0
  /\ calc_all(tehai, tehai_len_div3) > 2

\* C4: rule_based_ryukyoku() is false wherever real_time_shanten() <= 2,
\* whatever the round, the seats, the scores and can_ryukyoku.
C4_NoRyukyokuWithinTwoShanten ==
  called = "rule_based_ryukyoku" /\ real_time_shanten <= 2 => ret = FALSE

\* C4 witness: the draw can be called in the west round with a hand at
\* 2-shanten exactly, and the call is declined.
C4_Witness ==
  /\ called = "rule_based_ryukyoku"
  /\ last_cans.can_ryukyoku /\ bakaze = TW
  /\ real_time_shanten = 2
  /\ ret = FALSE

\* C7 as stated: where the final-hand rule decides, rule_based_ryukyoku() is
\* true only if the player's rank in the synthetic score table is still last.
C7_TrueOnlyIfStillLast ==
  called = "rule_based_ryukyoku" /\ final_hand_rule_decides
    => (ret = TRUE => get_rank(synthetic_scores) = 3)

\* C7 amended: where the final-hand rule decides, rule_based_ryukyoku() is
\* true exactly when the player's rank in the synthetic score table is better
\* than last, and false when it is still last.
C7_TrueIffEscapesLast ==
  called = "rule_based_ryukyoku" /\ final_hand_rule_decides
    => (ret = TRUE <=> get_rank(synthetic_scores) < 3)

\* C7 witness: the final-hand rule decides, honba and kyotaku count, the
\* synthetic table lifts the player off the last place and the draw is called.
C7_Witness ==
  /\ called = "rule_based_ryukyoku" /\ final_hand_rule_decides
  /\ honba > 0 /\ kyotaku > 0
  /\ get_rank(synthetic_scores) < 3
  /\ ret = TRUE

\* C8: when the draw can be called, the hand is at 3-shanten or further and
\* the round wind is west, rule_based_ryukyoku() is true.
C8_WestRoundRyukyoku ==
  called = "rule_based_ryukyoku" /\ last_cans.can_ryukyoku /\ bakaze = TW
    /\ calc_all(tehai, tehai_len_div3) >= 3
    => ret = TRUE

\* C8 witness: west round, not the final hand, ten yaokyuu kinds held at
\* 3-shanten, and the draw is called.
C8_Witness ==
  /\ called = "rule_based_ryukyoku" /\ last_cans.can_ryukyoku
  /\ bakaze = TW /\ ~is_all_last
  /\ calc_all(tehai, tehai_len_div3) = 3
  /\ yaokyuu_kind_count >= 10
  /\ ret = TRUE

---------------------------------------------------------------------------
(* Properties of rule_based_agari and agari_points.                        *)

\* the projected post-win table of the win at hand
projected == exp_scores(last_cans.can_ron_agari, rel(last_cans.target_actor))

\* the seven conditions under which the win is declined
declines_win ==
  /\ is_all_last
  /\ oya # 0
  /\ rank = 3
  /\ ~(bakaze = TW /\ kyoku < 3)
  /\ ~(bakaze # TW /\ \A i \in 0..3 : scores[i] < 30000)
  /\ \E i \in 0..3 : projected[i] >= 30000
  /\ get_rank(projected) = 3

\* C6: when a win can be declared, rule_based_agari() returns false if and
\* only if it is the final hand, the player is not the dealer, is last, the
\* round is not a west round with kyoku < 3, it is not a non-west round
\* with every score below 30000, some score of the projected post-win table
\* reaches 30000 and the player is still last in that table; otherwise it
\* returns true.
C6_DeclinesWinIff ==
  (called = "rule_based_agari" /\ can_agari) => (ret = ~declines_win)

\* a win declined for still being last in a table that reaches 30000
C6_Witness ==
  /\ called = "rule_based_agari" /\ can_agari /\ ret = FALSE /\ declines_win

\* the winning tile of the requested mode
requested_winning_tile ==
  IF unwrap(arg).is_ron THEN last_kawa_tile ELSE last_self_tsumo

\* C10: agari_points(is_ron, ura_indicators) returns a failure, never a
\* Point, for both values of is_ron, whenever neither can_ron_agari nor
\* can_tsumo_agari holds or the winning tile of the requested mode is
\* absent (last_kawa_tile for ron, last_self_tsumo for tsumo).
C10_FailsWithoutWinOrTile ==
  (called = "agari_points"
     /\ (~can_agari \/ ~is_some(requested_winning_tile)))
  => ~ret.ok

\* a ron asked with a tsumo at hand and no tile in any river
C10_Witness ==
  /\ called = "agari_points" /\ unwrap(arg).is_ron
  /\ last_cans.can_tsumo_agari /\ ~is_some(last_kawa_tile)
  /\ ret = Err("cannot find the winning tile")

---------------------------------------------------------------------------
(* Properties of single_player_tables.                                     *)

\* the result went through the EV search
invoked_search == "search" \in DOMAIN ret

\* C11: single_player_tables() returns a failure without invoking the EV
\* search whenever fewer than one more self-draw remains (tiles_left < 4 at
\* a discard point; elsewhere fewer than 4 tiles left once the draws up to
\* the player's next one are taken off) or real_time_shanten() is negative;
\* at a discard point the search is given tiles_left / 4 draws.
C11_FailsWithoutDrawOrShanten ==
  called = "single_player_tables" =>
    /\ ( \/ last_cans.can_discard /\ tiles_left < 4
         \/ ~last_cans.can_discard
              /\ saturating_sub(tiles_left, 4 - rel(last_cans.target_actor)) < 4
         \/ real_time_shanten < 0 )
       => ~ret.ok /\ ~invoked_search
    /\ (last_cans.can_discard /\ invoked_search)
       => ret.search.tsumos_left = tiles_left \div 4

\* facing a discard with four tiles or more in the wall, none of them left
\* for a draw after the player's next one
C11_Witness ==
  /\ called = "single_player_tables" /\ ~last_cans.can_discard
  /\ tiles_left >= 4 /\ real_time_shanten >= 0
  /\ saturating_sub(tiles_left, 4 - rel(last_cans.target_actor)) < 4
  /\ ret = Err("need at least one more tsumo")

---------------------------------------------------------------------------
(* Properties of the uradora indicators of rule_based_agari.               *)

\* the indicators the loop of rule_based_agari_slow hands to agari_points
chosen_ura_indicators == push_ura_indicators(tehai_ordered_by_count, tiles_seen, <<>>)

\* the winning hand agari_points counts the uradora in
winning_hand ==
  IF last_cans.can_ron_agari THEN Inc(tehai, deaka(unwrap(last_kawa_tile))) ELSE tehai

\* the uradora agari_points credits for the indicators ura
credited(ura) == ura_doras(winning_hand, ura, 1)

\* the choices of at most |dora_indicators| indicators using no kind more
\* often than its copies out of sight
UraChoices ==
  {u \in UNION {[1..n -> 0..33] : n \in 0..Len(dora_indicators)} :
     \A k \in 0..33 : Cardinality({i \in DOMAIN u : u[i] = k}) <= 4 - tiles_seen[k]}

\* the loop of rule_based_agari has run
ura_loop_ran == called = "rule_based_agari" /\ can_agari /\ riichi_accepted

\* C12: with an accepted riichi the uradora indicators chosen by the greedy
\* loop give the best-case bonus: what agari_points credits for them is the
\* maximum over every choice of at most |dora_indicators| indicators that
\* uses no kind more often than 4 minus its tiles_seen count; the loop
\* selects no more indicators than there are dora indicators and no kind
\* that is fully visible.
C12_GreedyUraIsBest ==
  ura_loop_ran =>
    /\ chosen_ura_indicators \in UraChoices
    /\ \A u \in UraChoices : credited(u) <= credited(chosen_ura_indicators)

\* a ron on E with 55p EE in hand: the loop chooses 4p for the pair of 5p
\* where N would show the three E of the winning hand
C12_Witness ==
  /\ ura_loop_ran /\ last_cans.can_ron_agari
  /\ chosen_ura_indicators \in UraChoices
  /\ \E u \in UraChoices : credited(u) > credited(chosen_ura_indicators)

\* What holds of the loop: on a tsumo, where the hand it ranks is the hand
\* agari_points counts in, its indicators are a best choice; on a ron they
\* are a choice within the limits.
C12_GreedyUraIsBestOnTsumo ==
  ura_loop_ran =>
    /\ chosen_ura_indicators \in UraChoices
    /\ ~last_cans.can_ron_agari =>
         \A u \in UraChoices : credited(u) <= credited(chosen_ura_indicators)

=============================================================================
